---------------------------- MODULE Spec2Model ----------------------------
(***************************************************************************)
(* A model of the getit resolution and dispatch pipeline (package getit):  *)
(* the Mapper chain, the Resolver registry, the sub-directory split of     *)
(* Fetcher.Resolve and the delegation of Fetcher.Fetch, together with the  *)
(* built-in mappers (GitHub, GitHubOrgRepo, SingleGitHubOrg, FilePath) and *)
(* the Match predicates of the built-in resolvers (File, Git, TAR, ZIP).   *)
(*                                                                         *)
(* A Go string is a sequence of one-character strings.  The character      *)
(* "DEL" stands for the control byte 0x7f.  The alphabet of the inputs     *)
(* holds no '%', '@', '[', ']' or '*', so percent-escapes, user-info and   *)
(* IPv6 literals of net/url never arise.                                   *)
(***************************************************************************)
EXTENDS Integers, Sequences, FiniteSets, TLC

(***************************************************************************)
(* Bounds of the model.                                                    *)
(***************************************************************************)
\* longest mapper list of a Fetcher built from an arbitrary mapper list
MaxMappers == 2
\* longest resolver list of a Fetcher built from an arbitrary resolver list
MaxResolvers == 2

(***************************************************************************)
(* package strings                                                         *)
(***************************************************************************)
HasPrefix(s, p) == Len(s) >= Len(p) /\ SubSeq(s, 1, Len(p)) = p

HasSuffix(s, p) == Len(s) >= Len(p) /\ SubSeq(s, Len(s) - Len(p) + 1, Len(s)) = p

\* 1-based position of the first occurrence of sep in s, 0 when there is none
Index(s, sep) ==
    LET First(hits) == IF hits = {} THEN 0 ELSE CHOOSE k \in hits : \A m \in hits : k <= m
    IN  First({k \in 1..(Len(s) - Len(sep) + 1) : SubSeq(s, k, k + Len(sep) - 1) = sep})

\* 1-based position of the last occurrence of sep in s, 0 when there is none
LastIndex(s, sep) ==
    LET Last(hits) == IF hits = {} THEN 0 ELSE CHOOSE k \in hits : \A m \in hits : k >= m
    IN  Last({k \in 1..(Len(s) - Len(sep) + 1) : SubSeq(s, k, k + Len(sep) - 1) = sep})

Contains(s, sep) == Index(s, sep) # 0

\* number of non-overlapping occurrences of the one-character string c
Count(s, c) == Cardinality({k \in 1..Len(s) : s[k] = c})

\* strings.Cut: split s around the first occurrence of sep
Cut(s, sep) ==
    LET At(k) ==
            IF k = 0
            THEN [before |-> s, after |-> <<>>, found |-> FALSE]
            ELSE [before |-> SubSeq(s, 1, k - 1),
                  after  |-> SubSeq(s, k + Len(sep), Len(s)),
                  found  |-> TRUE]
    IN  At(Index(s, sep))

LowerLetters ==
    <<"a", "b", "c", "d", "e", "f", "g", "h", "i", "j", "k", "l", "m", "n", "o", "p", "q", "r", "s", "t", "u", "v", "w", "x", "y", "z">>

UpperLetters ==
    <<"A", "B", "C", "D", "E", "F", "G", "H", "I", "J", "K", "L", "M", "N", "O", "P", "Q", "R", "S", "T", "U", "V", "W", "X", "Y", "Z">>

Digits == {"0", "1", "2", "3", "4", "5", "6", "7", "8", "9"}

LowerSet == {LowerLetters[k] : k \in 1..26}

UpperSet == {UpperLetters[k] : k \in 1..26}

IsLower(c) == c \in LowerSet

IsUpper(c) == c \in UpperSet

ToLowerChar(c) ==
    IF IsUpper(c) THEN LowerLetters[CHOOSE k \in 1..26 : UpperLetters[k] = c] ELSE c

ToLower(s) == [k \in 1..Len(s) |-> ToLowerChar(s[k])]

\* the control bytes (below 0x20, or 0x7f) of the alphabet
CTLBytes == {"DEL"}

(***************************************************************************)
(* package net/url, as called by Fetcher.Resolve: url.Parse, URL.String.   *)
(***************************************************************************)
ZeroURL ==
    [Scheme |-> <<>>, Opaque |-> <<>>, Host |-> <<>>, Path |-> <<>>,
     RawQuery |-> <<>>, Fragment |-> <<>>, ForceQuery |-> FALSE, OmitHost |-> FALSE]

stringContainsCTLByte(s) == \E k \in 1..Len(s) : s[k] \in CTLBytes

\* getScheme: [scheme, rest, err]
getScheme(raw) ==
    LET IsAlpha(c) == IsLower(c) \/ IsUpper(c)
        IsSchemeTail(c) == c \in Digits \/ c \in {"+", "-", "."}
        \* the positions at which the scan of getScheme stops
        stops == {k \in 1..Len(raw) :
                     \/ ~IsAlpha(raw[k]) /\ ~IsSchemeTail(raw[k])
                     \/ IsSchemeTail(raw[k]) /\ k = 1}
        First(S) == IF S = {} THEN 0 ELSE CHOOSE k \in S : \A m \in S : k <= m
        \* the scan stops at position stop (0: at the end of raw)
        At(stop) ==
            IF stop = 0 \/ raw[stop] # ":"
            THEN [scheme |-> <<>>, rest |-> raw, err |-> FALSE]
            ELSE IF stop = 1
                 THEN [scheme |-> <<>>, rest |-> <<>>, err |-> TRUE]
                 ELSE [scheme |-> SubSeq(raw, 1, stop - 1),
                       rest   |-> SubSeq(raw, stop + 1, Len(raw)),
                       err    |-> FALSE]
    IN  At(First(stops))

\* validOptionalPort: port is "" or ":" followed by digits only
validOptionalPort(port) ==
    \/ port = <<>>
    \/ /\ port[1] = ":"
       /\ \A k \in 2..Len(port) : port[k] \in Digits

\* parseHost: TRUE when the host of an authority is rejected
parseHostFails(host) ==
    LET k == LastIndex(host, <<":">>)
    IN  k # 0 /\ ~validOptionalPort(SubSeq(host, k, Len(host)))

\* parse(rawURL, viaRequest = false) of net/url, for a string without '#'
parse(raw) ==
    LET Failed == [err |-> TRUE, url |-> ZeroURL]
        \* the authority, cut from the rest at position slash (0: no path follows)
        Authority(base, auth0, slash) ==
            LET authority == IF slash = 0 THEN auth0 ELSE SubSeq(auth0, 1, slash - 1)
                afterAuth == IF slash = 0 THEN <<>> ELSE SubSeq(auth0, slash, Len(auth0))
            IN  IF parseHostFails(authority)
                THEN Failed
                ELSE [err |-> FALSE,
                      url |-> [base EXCEPT !.Host = authority, !.Path = afterAuth]]
        \* what follows the scheme, its query cut off
        Rest(scheme, rest, query, force) ==
            LET base == [ZeroURL EXCEPT !.Scheme = scheme, !.RawQuery = query,
                                        !.ForceQuery = force]
                rooted == HasPrefix(rest, <<"/">>)
                hasAuthority == /\ (scheme # <<>> \/ ~HasPrefix(rest, <<"/", "/", "/">>))
                                /\ HasPrefix(rest, <<"/", "/">>)
                auth0 == SubSeq(rest, 3, Len(rest))
            IN  IF ~rooted /\ scheme # <<>>
                THEN [err |-> FALSE, url |-> [base EXCEPT !.Opaque = rest]]
                ELSE IF ~rooted /\ Contains(Cut(rest, <<"/">>).before, <<":">>)
                THEN Failed
                ELSE IF hasAuthority
                THEN Authority(base, auth0, Index(auth0, <<"/">>))
                ELSE [err |-> FALSE,
                      url |-> [base EXCEPT !.Path = rest,
                                           !.OmitHost = (scheme # <<>> /\ rooted)]]
        \* the query, cut at the first '?' unless rest ends in its only '?'
        Query(scheme, rest, force, qcut) ==
            IF force
            THEN Rest(scheme, SubSeq(rest, 1, Len(rest) - 1), <<>>, TRUE)
            ELSE Rest(scheme, qcut.before, qcut.after, FALSE)
        Scheme(gs) ==
            IF gs.err THEN Failed
            ELSE Query(ToLower(gs.scheme), gs.rest,
                       HasSuffix(gs.rest, <<"?">>) /\ Count(gs.rest, "?") = 1,
                       Cut(gs.rest, <<"?">>))
    IN  IF stringContainsCTLByte(raw) THEN Failed
        ELSE IF raw = <<"*">> THEN [err |-> FALSE, url |-> [ZeroURL EXCEPT !.Path = <<"*">>]]
        ELSE Scheme(getScheme(raw))

\* url.Parse: cut off the fragment, parse the rest, set the fragment
ParseURL(raw) ==
    LET Fragment(p, frag) ==
            IF p.err THEN p
            ELSE [err |-> FALSE, url |-> [p.url EXCEPT !.Fragment = frag]]
        Split(fcut) == Fragment(parse(fcut.before), fcut.after)
    IN  Split(Cut(raw, <<"#">>))

\* escape(s, encodeFragment): of the alphabet only '#' and ' ' are escaped
EscapeFragment(s) ==
    LET RECURSIVE esc(_)
        esc(k) == IF k > Len(s) THEN <<>>
                  ELSE (IF s[k] = "#" THEN <<"%", "2", "3">>
                        ELSE IF s[k] = " " THEN <<"%", "2", "0">>
                        ELSE <<s[k]>>) \o esc(k + 1)
    IN  esc(1)

\* URL.String: reassemble the URL
URLString(u) ==
    LET schemePart == IF u.Scheme # <<>> THEN u.Scheme \o <<":">> ELSE <<>>
        hostPart ==
            IF u.Scheme # <<>> \/ u.Host # <<>>
            THEN IF u.OmitHost /\ u.Host = <<>>
                 THEN <<>>
                 ELSE (IF u.Host # <<>> \/ u.Path # <<>> THEN <<"/", "/">> ELSE <<>>) \o u.Host
            ELSE <<>>
        sep == IF u.Path # <<>> /\ u.Path[1] # "/" /\ u.Host # <<>> THEN <<"/">> ELSE <<>>
        dot == IF schemePart \o hostPart \o sep = <<>>
                  /\ Contains(Cut(u.Path, <<"/">>).before, <<":">>)
               THEN <<".", "/">> ELSE <<>>
        body == IF u.Opaque # <<>> THEN u.Opaque
                ELSE hostPart \o sep \o dot \o u.Path
        queryPart == IF u.ForceQuery \/ u.RawQuery # <<>>
                     THEN <<"?">> \o u.RawQuery ELSE <<>>
        fragPart == IF u.Fragment # <<>>
                    THEN <<"#">> \o EscapeFragment(u.Fragment) ELSE <<>>
    IN  schemePart \o body \o queryPart \o fragPart

\* strconv.Quote, the %q verb: of the alphabet only the control byte is escaped
Quote(s) ==
    LET RECURSIVE q(_)
        q(k) == IF k > Len(s) THEN <<>>
                ELSE (IF s[k] = "DEL" THEN <<"\\", "x", "7", "f">> ELSE <<s[k]>>) \o q(k + 1)
    IN  <<"\"">> \o q(1) \o <<"\"">>

(***************************************************************************)
(* The file system and environment seen by the FilePath mapper: the        *)
(* directories, the regular files and the symbolic links (each to a        *)
(* directory, by its canonical path), the working directory and $HOME.     *)
(***************************************************************************)
FsDirs == {<<"/">>, <<"/", "w">>, <<"/", "w", "/", "d">>, <<"/", "w", "/", "r", "?", "x">>, <<"/", "h">>, <<"/", "h", "/", "p">>}

FsFiles == {<<"/", "w", "/", "f">>}

FsLinks == [p \in {<<"/", "w", "/", "l">>} |-> <<"/", "w", "/", "d">>]

Getwd == <<"/", "w">>

HomeDir == <<"/", "h">>

\* the elements of a path between its separators
RECURSIVE SplitPath(_)
SplitPath(p) ==
    LET At(c) == IF ~c.found THEN <<p>> ELSE <<c.before>> \o SplitPath(c.after)
    IN  At(Cut(p, <<"/">>))

RECURSIVE JoinElems(_)
JoinElems(es) ==
    IF es = <<>> THEN <<>>
    ELSE IF Len(es) = 1 THEN es[1]
    ELSE es[1] \o <<"/">> \o JoinElems(Tail(es))

\* filepath.Clean: the shortest lexically equivalent path
Clean(p) ==
    LET rooted == HasPrefix(p, <<"/">>)
        RECURSIVE walk(_, _, _)
        walk(elems, k, out) ==
            IF k > Len(elems) THEN out
            ELSE IF elems[k] = <<>> \/ elems[k] = <<".">> THEN walk(elems, k + 1, out)
            ELSE IF elems[k] = <<".", ".">>
                 THEN IF out # <<>> /\ out[Len(out)] # <<".", ".">>
                      THEN walk(elems, k + 1, SubSeq(out, 1, Len(out) - 1))
                      ELSE IF rooted THEN walk(elems, k + 1, out)
                      ELSE walk(elems, k + 1, Append(out, elems[k]))
            ELSE walk(elems, k + 1, Append(out, elems[k]))
        Rooted(body) ==
            IF rooted THEN <<"/">> \o body
            ELSE IF body = <<>> THEN <<".">> ELSE body
    IN  Rooted(JoinElems(walk(SplitPath(p), 1, <<>>)))

\* filepath.Join of two elements: empty elements are ignored, the result is cleaned
Join(a, b) ==
    IF a = <<>> /\ b = <<>> THEN <<>>
    ELSE Clean(IF a = <<>> THEN b
               ELSE IF b = <<>> THEN a
               ELSE a \o <<"/">> \o b)

IsAbs(p) == HasPrefix(p, <<"/">>)

\* filepath.Abs
Abs(p) == IF IsAbs(p) THEN Clean(p) ELSE Join(Getwd, p)

\* the kernel's resolution of an absolute path, following symbolic links:
\* [ok, isDir, real]
RealPath(p) ==
    LET child(dir, e) == IF dir = <<"/">> THEN dir \o e ELSE dir \o <<"/">> \o e
        parent(dir) ==
            LET Up(k) == IF k <= 1 THEN <<"/">> ELSE SubSeq(dir, 1, k - 1)
            IN  Up(LastIndex(dir, <<"/">>))
        RECURSIVE walk(_, _, _)
        walk(elems, k, dir) ==
            IF k > Len(elems) THEN [ok |-> TRUE, isDir |-> TRUE, real |-> dir]
            ELSE IF elems[k] = <<>> \/ elems[k] = <<".">> THEN walk(elems, k + 1, dir)
            ELSE IF elems[k] = <<".", ".">> THEN walk(elems, k + 1, parent(dir))
            ELSE LET c == child(dir, elems[k])
                 IN  IF c \in DOMAIN FsLinks THEN walk(elems, k + 1, FsLinks[c])
                     ELSE IF c \in FsDirs THEN walk(elems, k + 1, c)
                     ELSE IF c \in FsFiles /\ k = Len(elems)
                          THEN [ok |-> TRUE, isDir |-> FALSE, real |-> c]
                          ELSE [ok |-> FALSE, isDir |-> FALSE, real |-> <<>>]
    IN  walk(SplitPath(p), 1, <<"/">>)

(***************************************************************************)
(* The mappers.  A mapper returns [out, ok].                               *)
(***************************************************************************)
NoMatch == [out |-> <<>>, ok |-> FALSE]

\* a GitHub mapper that does not know the schemed form
GitHub_unschemed(source) ==
    IF HasPrefix(source, <<"g", "i", "t", "h", "u", "b", ".", "c", "o", "m", "/">>)
    THEN [out |-> <<"g", "i", "t", "+", "h", "t", "t", "p", "s", ":", "/", "/">> \o source, ok |-> TRUE]
    ELSE NoMatch

\* a GitHub mapper that yields plain https URLs
GitHub_https(source) ==
    IF HasPrefix(source, <<"g", "i", "t", "h", "u", "b", ".", "c", "o", "m", "/">>)
    THEN [out |-> <<"h", "t", "t", "p", "s", ":", "/", "/">> \o source, ok |-> TRUE]
    ELSE IF HasPrefix(source, <<"h", "t", "t", "p", "s", ":", "/", "/", "g", "i", "t", "h", "u", "b", ".", "c", "o", "m", "/">>)
    THEN [out |-> source, ok |-> TRUE]
    ELSE NoMatch

\* GitHub maps github.com/<path> and https://github.com/<path>
GitHub(source) ==
    IF HasPrefix(source, <<"g", "i", "t", "h", "u", "b", ".", "c", "o", "m", "/">>)
    THEN [out |-> <<"g", "i", "t", "+", "h", "t", "t", "p", "s", ":", "/", "/">> \o source, ok |-> TRUE]
    ELSE IF HasPrefix(source, <<"h", "t", "t", "p", "s", ":", "/", "/", "g", "i", "t", "h", "u", "b", ".", "c", "o", "m", "/">>)
    THEN [out |-> <<"g", "i", "t", "+">> \o source, ok |-> TRUE]
    ELSE NoMatch

\* the character class [a-zA-Z0-9_-]
IsNameChar(c) == IsLower(c) \/ IsUpper(c) \/ c \in Digits \/ c \in {"_", "-"}

\* length of the longest prefix of s made of name characters
NameRun(s) ==
    LET ends == {k \in 0..Len(s) : \A m \in 1..k : IsNameChar(s[m])}
    IN  CHOOSE k \in ends : \A m \in ends : k >= m

\* gitHubOrgRe = ^([a-zA-Z0-9_-]+/[a-zA-Z0-9_-]+)([?#].*) : [ok, g1, g2]
gitHubOrgRe(s) ==
    LET \* n1, n2: the lengths of the name runs before and after the '/'
        Groups(n1, n2) ==
            LET e == n1 + 1 + n2
            IN  IF /\ n1 >= 1
                   /\ Len(s) > n1 /\ s[n1 + 1] = "/"
                   /\ n2 >= 1
                   /\ Len(s) > e /\ s[e + 1] \in {"?", "#"}
                THEN [ok |-> TRUE, g1 |-> SubSeq(s, 1, e), g2 |-> SubSeq(s, e + 1, Len(s))]
                ELSE [ok |-> FALSE, g1 |-> <<>>, g2 |-> <<>>]
        Org(n1) == Groups(n1, NameRun(SubSeq(s, n1 + 2, Len(s))))
    IN  Org(NameRun(s))

\* a GitHubOrgRepo whose replacement template lost its second group
GitHubOrgRepo_dropsSuffix(source) ==
    LET Groups(m) ==
            IF m.ok
            THEN [out |-> <<"g", "i", "t", "+", "h", "t", "t", "p", "s", ":", "/", "/", "g", "i", "t", "h", "u", "b", ".", "c", "o", "m", "/">> \o m.g1, ok |-> TRUE]
            ELSE NoMatch
    IN  Groups(gitHubOrgRe(source))

\* GitHubOrgRepo maps <org>/<repo> followed by a query or a fragment
GitHubOrgRepo(source) ==
    LET Groups(m) ==
            IF m.ok
            THEN [out |-> <<"g", "i", "t", "+", "h", "t", "t", "p", "s", ":", "/", "/", "g", "i", "t", "h", "u", "b", ".", "c", "o", "m", "/">> \o m.g1 \o m.g2, ok |-> TRUE]
            ELSE NoMatch
    IN  Groups(gitHubOrgRe(source))

\* singleGitHubOrg = ^([a-zA-Z0-9_-]+)([#?].*) : [ok, g1, g2]
singleGitHubOrg(s) ==
    LET Groups(n1) ==
            IF n1 >= 1 /\ Len(s) > n1 /\ s[n1 + 1] \in {"#", "?"}
            THEN [ok |-> TRUE, g1 |-> SubSeq(s, 1, n1), g2 |-> SubSeq(s, n1 + 1, Len(s))]
            ELSE [ok |-> FALSE, g1 |-> <<>>, g2 |-> <<>>]
    IN  Groups(NameRun(s))

\* SingleGitHubOrg(org) maps <repo> followed by a query or a fragment
SingleGitHubOrg(org, source) ==
    LET Groups(m) ==
            IF m.ok
            THEN [out |-> <<"g", "i", "t", "+", "h", "t", "t", "p", "s", ":", "/", "/", "g", "i", "t", "h", "u", "b", ".", "c", "o", "m", "/">> \o org \o <<"/">> \o m.g1 \o m.g2,
                  ok |-> TRUE]
            ELSE NoMatch
    IN  Groups(singleGitHubOrg(source))

\* a FilePath that does not ask whether the path is a directory
FilePath_anyFile(source, homeOk) ==
    LET Stat(st) ==
            IF ~st.ok THEN NoMatch
            ELSE [out |-> <<"f", "i", "l", "e", ":", "/", "/">> \o st.real, ok |-> TRUE]
        Absolute(path) == Stat(RealPath(IF IsAbs(path) THEN path ELSE Abs(path)))
    IN  IF source = <<>> THEN NoMatch
        ELSE IF HasPrefix(source, <<"f", "i", "l", "e", ":", "/", "/">>) THEN [out |-> source, ok |-> TRUE]
        ELSE IF HasPrefix(source, <<"~", "/">>)
        THEN IF ~homeOk THEN NoMatch
             ELSE Absolute(Join(HomeDir, SubSeq(source, 3, Len(source))))
        ELSE Absolute(source)

\* FilePath maps the path of an existing directory to a file:// URL;
\* homeOk tells whether os.UserHomeDir succeeds
FilePath(source, homeOk) ==
    LET \* os.Stat, IsDir and filepath.EvalSymlinks of the absolute path
        Stat(st) ==
            IF ~st.ok \/ ~st.isDir THEN NoMatch
            ELSE [out |-> <<"f", "i", "l", "e", ":", "/", "/">> \o st.real, ok |-> TRUE]
        Absolute(path) == Stat(RealPath(IF IsAbs(path) THEN path ELSE Abs(path)))
    IN  IF source = <<>> THEN NoMatch
        ELSE IF HasPrefix(source, <<"f", "i", "l", "e", ":", "/", "/">>) THEN [out |-> source, ok |-> TRUE]
        ELSE IF HasPrefix(source, <<"~", "/">>)
        THEN IF ~homeOk THEN NoMatch
             ELSE Absolute(Join(HomeDir, SubSeq(source, 3, Len(source))))
        ELSE Absolute(source)

\* the mapper values a Fetcher may hold
MapGitHub == [kind |-> "GitHub", org |-> <<>>]

MapGitHubOrgRepo == [kind |-> "GitHubOrgRepo", org |-> <<>>]

MapFilePath == [kind |-> "FilePath", org |-> <<>>]

MapSingleGitHubOrg(org) == [kind |-> "SingleGitHubOrg", org |-> org]

\* calling a Mapper value: mapper(source)
ApplyMapper(m, source, homeOk) ==
    CASE m.kind = "GitHub" -> GitHub(source)
      [] m.kind = "GitHubOrgRepo" -> GitHubOrgRepo(source)
      [] m.kind = "SingleGitHubOrg" -> SingleGitHubOrg(m.org, source)
      [] m.kind = "FilePath" -> FilePath(source, homeOk)

(***************************************************************************)
(* The Match predicates of the built-in resolvers.                         *)
(***************************************************************************)
FileMatch(u) == u.Scheme = <<"f", "i", "l", "e">>

\* a Git resolver that claims plain https URLs instead of git+https
GitMatch_plainHTTPS(u) == u.Scheme \in {<<"h", "t", "t", "p", "s">>, <<"g", "i", "t", "+", "s", "s", "h">>, <<"g", "i", "t">>}

GitMatch(u) ==
    u.Scheme # <<"h", "t", "t", "p", "s">> /\ u.Scheme # <<"g", "i", "t", "+", "s", "s", "h">> /\ u.Scheme # <<"g", "i", "t">>

\* tarRe = (\.tar(\.[a-z]+)?)|(\.tbz|\.tbz2|\.txz|\.tzstd|\.tlz|\.tZ|\.tgz), unanchored
tarRe(s) ==
    \/ Contains(s, <<".", "t", "a", "r">>)
    \/ \E ext \in {<<".", "t", "b", "z">>, <<".", "t", "b", "z", "2">>, <<".", "t", "x", "z">>, <<".", "t", "z", "s", "t", "d">>, <<".", "t", "l", "z">>, <<".", "t", "Z">>, <<".", "t", "g", "z">>} :
          Contains(s, ext)

TARMatch(u) == tarRe(u.Path)

ZIPMatch(u) == HasSuffix(u.Path, <<".", "z", "i", "p">>)

\* calling resolver.Match(u)
ResolverMatch(r, u) ==
    CASE r = "File" -> FileMatch(u)
      [] r = "Git" -> GitMatch(u)
      [] r = "TAR" -> TARMatch(u)
      [] r = "ZIP" -> ZIPMatch(u)

(***************************************************************************)
(* Fetcher: an ordered mapper list and an ordered resolver list.           *)
(***************************************************************************)
\* New(resolvers, mappers)
New(resolvers, mappers) == [mappers |-> mappers, resolvers |-> resolvers]

\* the Default Fetcher
Default ==
    New(<<"File", "Git", "TAR", "ZIP">>,
        <<MapGitHub, MapGitHubOrgRepo, MapFilePath>>)

\* the organisations bound by SingleGitHubOrg
Orgs == {<<"o">>, <<"p">>}

Mappers ==
    {MapGitHub, MapGitHubOrgRepo, MapFilePath} \cup {MapSingleGitHubOrg(o) : o \in Orgs}

Resolvers == {"File", "Git", "TAR", "ZIP"}

\* the lists of at most n distinct elements of S
ListsOf(S, n) ==
    {l \in UNION {[1..k -> S] : k \in 0..n} :
        \A a, b \in 1..Len(l) : a # b => l[a] # l[b]}

\* the Fetchers of the model: Default, Default's resolvers under every
\* mapper list, and Default's mappers over every resolver list
Fetchers ==
    {Default}
      \cup {New(Default.resolvers, ms) : ms \in ListsOf(Mappers, MaxMappers)}
      \cup {New(rs, Default.mappers) : rs \in ListsOf(Resolvers, MaxResolvers)}

\* Source: a resolved URL (a pointer: <<>> is nil, <<u>> points to u) and a sub-directory
ZeroSource == [URL |-> <<>>, SubDir |-> <<>>]

\* the nil error
NoError == <<>>

\* an invalid source reported with the message of an unsupported one
InvalidSourceError_unsupported(source) == <<"u", "n", "s", "u", "p", "p", "o", "r", "t", "e", "d", " ", "s", "o", "u", "r", "c", "e", ":", " ">> \o source

\* fmt.Errorf("invalid source %q", source)
InvalidSourceError(source) == <<"i", "n", "v", "a", "l", "i", "d", " ", "s", "o", "u", "r", "c", "e", " ">> \o Quote(source)

\* an unsupported source reported by its path alone
UnsupportedSourceError_path(u) == <<"u", "n", "s", "u", "p", "p", "o", "r", "t", "e", "d", " ", "s", "o", "u", "r", "c", "e", ":", " ">> \o u.Path

\* fmt.Errorf("unsupported source: %s", u)
UnsupportedSourceError(u) == <<"u", "n", "s", "u", "p", "p", "o", "r", "t", "e", "d", " ", "s", "o", "u", "r", "c", "e", ":", " ">> \o URLString(u)

\* a mapper loop without the validity check
MapperOutputInvalid_unchecked(mapped) == FALSE

\* the validity check of a mapper's output: TRUE when Resolve panics
MapperOutputInvalid(mapped) == ParseURL(mapped).err

\* a mapper loop without its break
MapperLoopBreaks_never(ok) == FALSE

\* the mapper loop leaves at the first match
MapperLoopBreaks(ok) == ok

\* the mapper loop of Resolve from mapper i on: [source, calls, panic], calls
\* being the mapper invocations in order, each [index, arg, out, ok]: the
\* mapper's position, its argument and the two values it returned
RECURSIVE MapperLoop(_, _, _, _)
MapperLoop(mappers, source, homeOk, i) ==
    LET \* mapped, ok := mapper(source)
        Step(r) ==
            LET call == [index |-> i, arg |-> source, out |-> r.out, ok |-> r.ok]
                mapped == IF r.ok THEN r.out ELSE source
                Rest(rest) == [rest EXCEPT !.calls = <<call>> \o @]
            IN  IF r.ok /\ MapperOutputInvalid(mapped)
                THEN [source |-> mapped, calls |-> <<call>>, panic |-> TRUE]
                ELSE IF MapperLoopBreaks(r.ok)
                THEN [source |-> mapped, calls |-> <<call>>, panic |-> FALSE]
                ELSE Rest(MapperLoop(mappers, mapped, homeOk, i + 1))
    IN  IF i > Len(mappers) THEN [source |-> source, calls |-> <<>>, panic |-> FALSE]
        ELSE Step(ApplyMapper(mappers[i], source, homeOk))

\* a split around the last "//" of the path instead of the first
SplitSubDir_last(u) ==
    LET Parts(k) ==
            IF k = 0 THEN [URL |-> <<u>>, SubDir |-> <<>>]
            ELSE [URL |-> <<[u EXCEPT !.Path = SubSeq(u.Path, 1, k - 1)]>>,
                  SubDir |-> SubSeq(u.Path, k + 2, Len(u.Path))]
    IN  Parts(LastIndex(u.Path, <<"/", "/">>))

\* the split of the URL path around "//": the Source returned by Resolve
SplitSubDir(u) ==
    LET Parts(c) ==
            [URL |-> <<IF c.found THEN [u EXCEPT !.Path = c.before] ELSE u>>,
             SubDir |-> c.after]
    IN  Parts(Cut(u.Path, <<"/", "/">>))

\* a sub-directory split made before the resolvers are consulted
MatchArgument_stripped(u) == SplitSubDir(u).URL[1]

\* the URL handed to resolver.Match
MatchArgument(u) == u

\* a resolver loop that lost the negation of its test
ResolverSkipped_inverted(matched) == matched

\* the resolver loop skips a resolver whose Match is false
ResolverSkipped(matched) == ~matched

\* the resolver loop of Resolve from resolver j on: [hit, calls], hit being the
\* index of the resolver returned (0: none), calls the Match invocations in
\* order, each [index, arg]
RECURSIVE ResolverLoop(_, _, _)
ResolverLoop(resolvers, u, j) ==
    LET call == [index |-> j, arg |-> MatchArgument(u)]
        Rest(rest) == [rest EXCEPT !.calls = <<call>> \o @]
    IN  IF j > Len(resolvers) THEN [hit |-> 0, calls |-> <<>>]
        ELSE IF ResolverSkipped(ResolverMatch(resolvers[j], MatchArgument(u)))
        THEN Rest(ResolverLoop(resolvers, u, j + 1))
        ELSE [hit |-> j, calls |-> <<call>>]

\* Fetcher.Resolve: [outcome, resolver, source, err, candidate, mapperCalls,
\* matchCalls]; outcome is "ok", "error" or "panic", resolver the index of the
\* resolver returned (0: nil), candidate the string parsed as the URL
Resolve(f, source, homeOk) ==
    LET \* the resolver loop, r being its result on the URL u
        Matched(base, u, r) ==
            IF r.hit = 0
            THEN [base EXCEPT !.err = UnsupportedSourceError(u), !.matchCalls = r.calls]
            ELSE [base EXCEPT !.outcome = "ok", !.resolver = r.hit,
                              !.source = SplitSubDir(u), !.matchCalls = r.calls]
        \* u, err := url.Parse(source), p being its result
        Parsed(base, p) ==
            IF p.err THEN [base EXCEPT !.err = InvalidSourceError(base.candidate)]
            ELSE Matched(base, p.url, ResolverLoop(f.resolvers, p.url, 1))
        \* the mapper loop, m being its result
        Mapped(m) ==
            LET base == [outcome |-> "error", resolver |-> 0, source |-> ZeroSource,
                         err |-> NoError, candidate |-> m.source,
                         mapperCalls |-> m.calls, matchCalls |-> <<>>]
            IN  IF m.panic THEN [base EXCEPT !.outcome = "panic"]
                ELSE Parsed(base, ParseURL(m.source))
    IN  Mapped(MapperLoop(f.mappers, source, homeOk, 1))

\* the resolver on which Fetch calls Fetch
FetchCallee(res) == res.resolver

\* a Fetch that wraps the error of the resolver
FetchReturn_wrapped(err) == IF err = <<>> THEN err ELSE <<"f", "e", "t", "c", "h", ":", " ">> \o err

\* what Fetch returns from the resolver's Fetch
FetchReturn(err) == err

\* the entries, as paths relative to its root, of the archive, directory or
\* repository that a source URL names
Contents == {<<"m">>, <<"s", "/", "n">>, <<"s", "/", "t", "/", "k">>, <<"b", "/", "c">>}

\* TAR.Fetch: the entries that tar -x -C dest unpacks from the stream into dest
TARFetch(source) == Contents

\* ZIP.Fetch: the entries that unzip -d dest unpacks from the download into dest
ZIPFetch(source) == Contents

\* File.Fetch: the entries that copyDir copies from the directory into dest
FileFetch(source) == Contents

\* Git.Fetch: git clone is given dest as its only argument, the repository
\* to clone; no entry of the source reaches dest
GitFetch(source) == {}

\* the entries in dest after resolver.Fetch(ctx, source, dest) returned nil
ResolverFetch(r, source) ==
    CASE r = "File" -> FileFetch(source)
      [] r = "Git" -> GitFetch(source)
      [] r = "TAR" -> TARFetch(source)
      [] r = "ZIP" -> ZIPFetch(source)

\* the entries written into dest by a resolver Fetch that returned result;
\* what a failed Fetch leaves behind is not followed
Written(r, source, result) ==
    IF result = NoError THEN ResolverFetch(r, source) ELSE {}

(***************************************************************************)
(* The source strings, contexts, destinations and Fetch results.           *)
(***************************************************************************)
Heads ==
    {<<>>, <<"g", "i", "t", "h", "u", "b", ".", "c", "o", "m", "/">>, <<"h", "t", "t", "p", "s", ":", "/", "/", "g", "i", "t", "h", "u", "b", ".", "c", "o", "m", "/">>, <<"h", "t", "t", "p", "s", ":", "/", "/", "h", "/">>, <<"f", "t", "p", ":", "/", "/", "h", "/">>,
     <<"f", "i", "l", "e", ":", "/", "/", "/">>, <<"g", "i", "t", ":", "/", "/", "h", "/">>}

Tails ==
    {<<>>, <<"u", "/", "r">>, <<"u", "/", "r", "?", "x">>, <<"r", "?", "x">>, <<"r", "#", "f", "#", "g">>, <<"a", ".", "t", "g", "z">>, <<"a", ".", "t", "g", "z", "/", "/", "s">>, <<"a", ".", "z", "i", "p">>,
     <<"a", ".", "z", "i", "p", "/", "/", "s">>, <<"a", "/", "/", "b", "/", "/", "c">>, <<"d">>, <<"r", "?", "DEL">>}

Specials ==
    {<<":", "x">>, <<"1", ":", "x">>, <<"/", "/", "/", "a", "/", "/", "b">>, <<".">>, <<".", ".">>, <<"/", "w", "/", "l">>, <<"l">>, <<"f">>, <<"~", "/">>, <<"~", "/", "p">>,
     <<"~", "/", "q">>, <<"m", "a", "i", "l", "t", "o", ":", "a", "/", "/", "b">>, <<"h", "t", "t", "p", ":", "/", "/", "h", "?">>, <<"H", "T", "T", "P", "S", ":", "/", "/", "h", "/", "d">>, <<"H", "T", "T", "P", "S", ":", "/", "/", "h", "/", "a", ".", "z", "i", "p">>,
     <<"f", "i", "l", "e", ":", "/", "/", "h", ":", "x", "/", "a">>, <<"f", "i", "l", "e", ":", "/", "/", "w", "/", "d">>, <<"DEL">>, <<"u", "s", "e", "r", "/", "r", "e", "p", "o", "?", "r", "e", "f", "=", "m", "a", "i", "n">>, <<"u", "/", "r", "#", "f">>,
     <<"o", "/", "r", "/", "p", "?", "x">>, <<"g", "i", "t", "+", "s", "s", "h", ":", "/", "/", "h", "/", "r">>, <<"h", "t", "t", "p", ":", "/", "/", "h", "/", "a", ".", "t", "g", "z">>, <<"h", "t", "t", "p", "s", ":", "/", "/", "h", "/", "a", ".", "t", "a", "r", ".", "z", "i", "p">>,
     <<"h", "t", "t", "p", "s", ":", "/", "/", "h", "/", "t", "a", "r", "b", "a", "l", "l", ".", "z", "i", "p">>}

Sources == {h \o t : h \in Heads, t \in Tails} \cup Specials

Contexts == {"ctx1", "ctx2"}

Dests == {<<"o", "u", "t">>, <<"t", "m", "p">>}

\* the results of a resolver's Fetch: nil or an error of the resolver
FetchResults == {NoError, <<"c", "o", "n", "t", "e", "x", "t", " ", "c", "a", "n", "c", "e", "l", "e", "d">>}

(***************************************************************************)
(* The state machine: calls of Resolve and Fetch on one Fetcher.           *)
(***************************************************************************)
VARIABLES
    fetcher,     \* the Fetcher
    homeOk,      \* whether os.UserHomeDir succeeds in this process
    pc,          \* "idle", "returned" or "panicked"
    op,          \* the entry point called: "Resolve", "Fetch" or "none"
    args,        \* the arguments of the call: [ctx, source, dest]
    res,         \* what Resolve did and returned in this call
    fetchCalls,  \* the calls of a resolver's Fetch made by this call
    ret,         \* the error returned by Fetch
    inflight,    \* the local variables of the calls running in each goroutine
    fetching     \* the Fetch of a built-in resolver in progress

vars == <<fetcher, homeOk, pc, op, args, res, fetchCalls, ret, inflight, fetching>>

\* the goroutines that call Resolve and Fetch on the one Fetcher
Procs == {"g1", "g2"}

\* the local variables of a goroutine that is in no call: pc is its position
\* in Resolve or Fetch, arg the source passed, source the local variable
\* source, i the position in the mapper or resolver loop, u the parsed URL,
\* resolver, src and err what Resolve returns, fetched the resolver Fetch calls
IdleCall ==
    [pc |-> "idle", op |-> "none", ctx |-> "none", arg |-> <<>>, dest |-> <<>>,
     source |-> <<>>, i |-> 0, u |-> <<>>, resolver |-> 0, src |-> ZeroSource,
     err |-> NoError, fetched |-> <<>>]

NoCalls == [p \in Procs |-> IdleCall]

\* no Fetch of a resolver in progress: pc is the position in the Fetch,
\* cancelled whether ctx.Err() is not nil, atCall whether it was so when Fetch
\* was called, todo the entries the directory walk has not visited yet,
\* copied the entries created in dest, argv the command line run, err the
\* error returned
NoFetch ==
    [pc |-> "idle", resolver |-> "none", source |-> ZeroSource, dest |-> <<>>,
     cancelled |-> FALSE, atCall |-> FALSE, todo |-> <<>>, copied |-> {},
     argv |-> <<>>, err |-> NoError]

NoArgs == [ctx |-> "none", source |-> <<>>, dest |-> <<>>]

NoRes ==
    [outcome |-> "none", resolver |-> 0, source |-> ZeroSource, err |-> NoError,
     candidate |-> <<>>, mapperCalls |-> <<>>, matchCalls |-> <<>>]

Init ==
    /\ fetcher \in Fetchers
    /\ homeOk \in BOOLEAN
    /\ pc = "idle"
    /\ op = "none"
    /\ args = NoArgs
    /\ res = NoRes
    /\ fetchCalls = <<>>
    /\ ret = NoError
    /\ inflight = NoCalls
    /\ fetching = NoFetch

\* f.Resolve(source)
CallResolve(source) ==
    /\ pc = "idle"
    /\ op' = "Resolve"
    /\ args' = [NoArgs EXCEPT !.source = source]
    /\ res' = Resolve(fetcher, source, homeOk)
    /\ pc' = IF res'.outcome = "panic" THEN "panicked" ELSE "returned"
    /\ UNCHANGED <<fetcher, homeOk, fetchCalls, ret, inflight, fetching>>

\* a Fetch that, when Resolve fails, tries the first resolver of the list anyway
CallFetch_fallback(ctx, source, dest, result) ==
    /\ pc = "idle"
    /\ op' = "Fetch"
    /\ args' = [ctx |-> ctx, source |-> source, dest |-> dest]
    /\ res' = Resolve(fetcher, source, homeOk)
    /\ pc' = IF res'.outcome = "panic" THEN "panicked" ELSE "returned"
    /\ IF res'.outcome = "ok" \/ (res'.outcome = "error" /\ Len(fetcher.resolvers) > 0)
       THEN /\ fetchCalls' = <<[resolver |-> IF res'.outcome = "ok" THEN FetchCallee(res') ELSE 1,
                                ctx |-> ctx,
                                source |-> res'.source, dest |-> dest,
                                returned |-> result,
                                written |-> Written(fetcher.resolvers[IF res'.outcome = "ok"
                                                                      THEN FetchCallee(res') ELSE 1],
                                                    res'.source, result)]>>
            /\ ret' = FetchReturn(result)
       ELSE /\ fetchCalls' = <<>>
            /\ ret' = res'.err
    /\ UNCHANGED <<fetcher, homeOk, inflight, fetching>>

\* f.Fetch(ctx, source, dest); result is what the resolver's Fetch returns if called
CallFetch(ctx, source, dest, result) ==
    /\ pc = "idle"
    /\ op' = "Fetch"
    /\ args' = [ctx |-> ctx, source |-> source, dest |-> dest]
    /\ res' = Resolve(fetcher, source, homeOk)
    /\ pc' = IF res'.outcome = "panic" THEN "panicked" ELSE "returned"
    /\ IF res'.outcome = "ok"
       THEN /\ fetchCalls' = <<[resolver |-> FetchCallee(res'), ctx |-> ctx,
                                source |-> res'.source, dest |-> dest,
                                returned |-> result,
                                written |-> Written(fetcher.resolvers[FetchCallee(res')],
                                                    res'.source, result)]>>
            /\ ret' = FetchReturn(result)
       ELSE /\ fetchCalls' = <<>>
            /\ ret' = res'.err
    /\ UNCHANGED <<fetcher, homeOk, inflight, fetching>>

\* the caller takes the result; the Fetcher is ready for the next call
Return ==
    /\ pc = "returned"
    /\ pc' = "idle"
    /\ op' = "none"
    /\ args' = NoArgs
    /\ res' = NoRes
    /\ fetchCalls' = <<>>
    /\ ret' = NoError
    /\ UNCHANGED <<fetcher, homeOk, inflight, fetching>>

Next ==
    \/ \E s \in Sources : CallResolve(s)
    \/ \E c \in Contexts, s \in Sources, d \in Dests, r \in FetchResults :
          CallFetch(c, s, d, r)
    \/ Return

Spec == Init /\ [][Next]_vars

(***************************************************************************)
(* Concurrent calls: goroutines that run Resolve and Fetch on one Fetcher, *)
(* one loop iteration, parse or resolver Fetch per step.                   *)
(***************************************************************************)
\* the Fetchers shared by the goroutines
ConcFetchers ==
    {Default,
     New(<<"ZIP", "Git">>, <<MapSingleGitHubOrg(<<"o">>), MapGitHubOrgRepo, MapGitHub>>)}

\* the source strings passed by the goroutines
ConcSources ==
    {<<"u", "s", "e", "r", "/", "r", "e", "p", "o", "?", "r", "e", "f", "=", "m", "a", "i", "n">>, <<"g", "i", "t", "h", "u", "b", ".", "c", "o", "m", "/", "u", "/", "r">>, <<"r", "?", "x">>, <<"d">>, <<"f", "i", "l", "e", ":", "/", "/", "/", "a", ".", "z", "i", "p", "/", "/", "s">>,
     <<":", "x">>, <<"h", "t", "t", "p", "s", ":", "/", "/", "h", "/", "d">>, <<"g", "i", "t", "h", "u", "b", ".", "c", "o", "m", "/", "r", "?", "DEL">>}

\* a panic of one goroutine ends the program
Running == \A p \in Procs : inflight[p].pc # "panicked"

\* goroutine p enters f.Resolve(source) (o = "Resolve") or f.Fetch(ctx, source, dest)
Enter(p, o, ctx, source, dest) ==
    /\ Running
    /\ inflight[p].pc = "idle"
    /\ inflight' = [inflight EXCEPT ![p] =
                    [IdleCall EXCEPT !.pc = "mappers", !.op = o, !.ctx = ctx,
                                     !.arg = source, !.dest = dest,
                                     !.source = source, !.i = 1]]
    /\ UNCHANGED <<fetcher, homeOk, pc, op, args, res, fetchCalls, ret, fetching>>

\* a mapper loop that moves the mapper that matched to the front of f.mappers
MapperStep_moveToFront(p) ==
    LET c == inflight[p]
        Front(ms, i) == <<ms[i]>> \o SubSeq(ms, 1, i - 1) \o SubSeq(ms, i + 1, Len(ms))
        Step(r) ==
            IF r.ok /\ MapperOutputInvalid(r.out)
            THEN /\ inflight' = [inflight EXCEPT ![p].source = r.out, ![p].pc = "panicked"]
                 /\ UNCHANGED fetcher
            ELSE IF MapperLoopBreaks(r.ok)
            THEN /\ inflight' = [inflight EXCEPT ![p].source = r.out, ![p].pc = "parse"]
                 /\ fetcher' = [fetcher EXCEPT !.mappers = Front(@, c.i)]
            ELSE /\ inflight' = [inflight EXCEPT ![p].i = c.i + 1]
                 /\ UNCHANGED fetcher
    IN  /\ Running
        /\ c.pc = "mappers"
        /\ IF c.i > Len(fetcher.mappers)
           THEN inflight' = [inflight EXCEPT ![p].pc = "parse"] /\ UNCHANGED fetcher
           ELSE Step(ApplyMapper(fetcher.mappers[c.i], c.source, homeOk))
        /\ UNCHANGED <<homeOk, pc, op, args, res, fetchCalls, ret, fetching>>

\* one iteration of the mapper loop of Resolve in goroutine p
MapperStep(p) ==
    LET c == inflight[p]
        \* mapped, ok := mapper(source)
        Step(r) ==
            IF r.ok /\ MapperOutputInvalid(r.out)
            THEN inflight' = [inflight EXCEPT ![p].source = r.out, ![p].pc = "panicked"]
            ELSE IF MapperLoopBreaks(r.ok)
            THEN inflight' = [inflight EXCEPT ![p].source = r.out, ![p].pc = "parse"]
            ELSE inflight' = [inflight EXCEPT ![p].i = c.i + 1]
    IN  /\ Running
        /\ c.pc = "mappers"
        /\ IF c.i > Len(fetcher.mappers)
           THEN inflight' = [inflight EXCEPT ![p].pc = "parse"]
           ELSE Step(ApplyMapper(fetcher.mappers[c.i], c.source, homeOk))
        /\ UNCHANGED <<fetcher, homeOk, pc, op, args, res, fetchCalls, ret, fetching>>

\* u, err := url.Parse(source) in goroutine p
ParseStep(p) ==
    LET c == inflight[p]
        Parsed(q) ==
            IF q.err
            THEN inflight' = [inflight EXCEPT ![p].err = InvalidSourceError(c.source),
                                        ![p].pc = "returned"]
            ELSE inflight' = [inflight EXCEPT ![p].u = <<q.url>>, ![p].i = 1,
                                        ![p].pc = "resolvers"]
    IN  /\ Running
        /\ c.pc = "parse"
        /\ Parsed(ParseURL(c.source))
        /\ UNCHANGED <<fetcher, homeOk, pc, op, args, res, fetchCalls, ret, fetching>>

\* one iteration of the resolver loop of Resolve in goroutine p
ResolverStep(p) ==
    LET c == inflight[p]
        Found(u) ==
            inflight' = [inflight EXCEPT ![p].resolver = c.i, ![p].src = SplitSubDir(u),
                                   ![p].pc = IF c.op = "Fetch" THEN "fetch" ELSE "returned"]
        Step(u) ==
            IF c.i > Len(fetcher.resolvers)
            THEN inflight' = [inflight EXCEPT ![p].err = UnsupportedSourceError(u),
                                        ![p].pc = "returned"]
            ELSE IF ResolverSkipped(ResolverMatch(fetcher.resolvers[c.i], MatchArgument(u)))
            THEN inflight' = [inflight EXCEPT ![p].i = c.i + 1]
            ELSE Found(u)
    IN  /\ Running
        /\ c.pc = "resolvers"
        /\ Step(c.u[1])
        /\ UNCHANGED <<fetcher, homeOk, pc, op, args, res, fetchCalls, ret, fetching>>

\* return src.Fetch(ctx, u, dest) in goroutine p; result is what the resolver returns
FetchStep(p, result) ==
    LET c == inflight[p]
    IN  /\ Running
        /\ c.pc = "fetch"
        /\ inflight' = [inflight EXCEPT
                        ![p].fetched = <<[resolver |-> FetchCallee(c), ctx |-> c.ctx,
                                          source |-> c.src, dest |-> c.dest,
                                          returned |-> result,
                                          written |-> Written(fetcher.resolvers[FetchCallee(c)],
                                                              c.src, result)]>>,
                        ![p].err = FetchReturn(result),
                        ![p].pc = "returned"]
        /\ UNCHANGED <<fetcher, homeOk, pc, op, args, res, fetchCalls, ret, fetching>>

\* the caller in goroutine p takes the result
Leave(p) ==
    /\ Running
    /\ inflight[p].pc = "returned"
    /\ inflight' = [inflight EXCEPT ![p] = IdleCall]
    /\ UNCHANGED <<fetcher, homeOk, pc, op, args, res, fetchCalls, ret, fetching>>

ConcInit ==
    /\ fetcher \in ConcFetchers
    /\ homeOk \in BOOLEAN
    /\ pc = "idle"
    /\ op = "none"
    /\ args = NoArgs
    /\ res = NoRes
    /\ fetchCalls = <<>>
    /\ ret = NoError
    /\ inflight = NoCalls
    /\ fetching = NoFetch

ConcNext ==
    \E p \in Procs :
        \/ \E s \in ConcSources : Enter(p, "Resolve", "none", s, <<>>)
        \/ \E s \in ConcSources, ctx \in Contexts, d \in Dests : Enter(p, "Fetch", ctx, s, d)
        \/ MapperStep(p)
        \/ ParseStep(p)
        \/ ResolverStep(p)
        \/ \E r \in FetchResults : FetchStep(p, r)
        \/ Leave(p)

ConcSpec == ConcInit /\ [][ConcNext]_vars

(***************************************************************************)
(* The Fetch of the built-in resolvers, under a context that the caller    *)
(* may cancel before the call or while it runs.                            *)
(***************************************************************************)
\* url.QueryUnescape of a string without '%'
QueryUnescape(s) == [k \in 1..Len(s) |-> IF s[k] = "+" THEN " " ELSE s[k]]

\* u.Query().Get(key): the first value of key in the query, "" when there is none
RECURSIVE QueryGet(_, _)
QueryGet(query, key) ==
    LET KeyValue(kv, rest) ==
            IF QueryUnescape(kv.before) = key THEN QueryUnescape(kv.after)
            ELSE QueryGet(rest, key)
        Pair(c) ==
            IF c.before = <<>> \/ Contains(c.before, <<";">>) THEN QueryGet(c.after, key)
            ELSE KeyValue(Cut(c.before, <<"=">>), c.after)
    IN  IF query = <<>> THEN <<>> ELSE Pair(Cut(query, <<"&">>))

\* the arguments Git.Fetch passes to git
GitArgs(source, dest) ==
    LET Args(depth, ref) ==
            <<<<"c", "l", "o", "n", "e">>>>
              \o (IF depth # <<>> THEN <<<<"-", "-", "d", "e", "p", "t", "h">>, depth>> ELSE <<>>)
              \o (IF ref # <<>> THEN <<<<"-", "-", "b", "r", "a", "n", "c", "h">>, ref>> ELSE <<>>)
              \o <<dest>>
    IN  Args(QueryGet(source.URL[1].RawQuery, <<"d", "e", "p", "t", "h">>),
             QueryGet(source.URL[1].RawQuery, <<"r", "e", "f">>))

\* compressionFlag(path)
compressionFlag(path) ==
    LET Flag(lower) ==
            IF HasSuffix(lower, <<".", "t", "a", "r", ".", "g", "z">>) \/ HasSuffix(lower, <<".", "t", "g", "z">>) THEN <<"-", "z">>
            ELSE IF HasSuffix(lower, <<".", "t", "a", "r", ".", "b", "z", "2">>) \/ HasSuffix(lower, <<".", "t", "b", "z">>)
                    \/ HasSuffix(lower, <<".", "t", "b", "z", "2">>) THEN <<"-", "j">>
            ELSE IF HasSuffix(lower, <<".", "t", "a", "r", ".", "x", "z">>) \/ HasSuffix(lower, <<".", "t", "x", "z">>) THEN <<"-", "J">>
            ELSE IF HasSuffix(lower, <<".", "t", "a", "r", ".", "z", "s", "t">>) \/ HasSuffix(lower, <<".", "t", "z", "s", "t", "d">>) THEN <<"-", "-", "z", "s", "t", "d">>
            ELSE IF HasSuffix(lower, <<".", "t", "a", "r", ".", "l", "z">>) \/ HasSuffix(lower, <<".", "t", "l", "z">>) THEN <<"-", "-", "l", "z", "i", "p">>
            ELSE IF HasSuffix(lower, <<".", "t", "a", "r", ".", "Z">>) \/ HasSuffix(lower, <<".", "t", "Z">>) THEN <<"-", "Z">>
            ELSE <<"-", "a">>
    IN  Flag(ToLower(path))

\* the arguments TAR.Fetch passes to tar
TARArgs(source, dest) == <<<<"-", "x">>, <<"-", "C">>, dest, compressionFlag(source.URL[1].Path)>>

\* the arguments ZIP.Fetch passes to unzip, the last being the temporary file
ZIPArgs(source, dest) == <<<<"-", "d">>, dest, <<"z", "i", "p", "-", "*", ".", "z", "i", "p">>>>

\* the entries of the source directory in the order filepath.WalkDir visits
\* them, the root first: the files of Contents and their directories
WalkOrder == <<<<".">>, <<"b">>, <<"b", "/", "c">>, <<"m">>, <<"s">>, <<"s", "/", "n">>, <<"s", "/", "t">>, <<"s", "/", "t", "/", "k">>>>

\* the sources handed to the Fetch of a resolver
FetchSources ==
    {SplitSubDir(ParseURL(s).url) :
        s \in {<<"g", "i", "t", "+", "h", "t", "t", "p", "s", ":", "/", "/", "g", "i", "t", "h", "u", "b", ".", "c", "o", "m", "/", "u", "/", "r", "?", "r", "e", "f", "=", "m", "a", "i", "n", "&", "d", "e", "p", "t", "h", "=", "1">>, <<"g", "i", "t", "+", "s", "s", "h", ":", "/", "/", "h", "/", "u", "/", "r", "?", "d", "e", "p", "t", "h", "=", "1">>,
               <<"g", "i", "t", ":", "/", "/", "h", "/", "r", "?", "r", "e", "f", "=", "&", "x", "=", "1">>, <<"h", "t", "t", "p", "s", ":", "/", "/", "h", "/", "a", ".", "t", "g", "z">>, <<"h", "t", "t", "p", "s", ":", "/", "/", "h", "/", "a", ".", "z", "i", "p", "/", "/", "s">>,
               <<"f", "i", "l", "e", ":", "/", "/", "/", "w", "/", "d">>}}

\* errors of the environment: a failed stat, request, copy or subprocess
FetchFailures == {<<"e", "x", "i", "t", " ", "s", "t", "a", "t", "u", "s", " ", "1">>}

\* the context error
Canceled == <<"c", "o", "n", "t", "e", "x", "t", " ", "c", "a", "n", "c", "e", "l", "e", "d">>

\* the path File.Fetch copies from: the URL path, under the host when there is one
srcPath(source) ==
    IF source.URL[1].Host # <<>> THEN Join(source.URL[1].Host, source.URL[1].Path)
    ELSE source.URL[1].Path

\* the caller calls resolver.Fetch(ctx, source, dest); cancelled tells whether
\* ctx is cancelled already, stat the result of os.Stat in File.Fetch
StartFetch(r, source, dest, cancelled, stat) ==
    LET begun == [NoFetch EXCEPT !.resolver = r, !.source = source, !.dest = dest,
                                 !.cancelled = cancelled, !.atCall = cancelled]
    IN  /\ fetching.pc = "idle"
        /\ fetching' =
              CASE r = "File" ->
                     IF stat # NoError
                     THEN [begun EXCEPT !.pc = "done",
                                        !.err = <<"s", "t", "a", "t", " ">> \o srcPath(source) \o <<":", " ">> \o stat]
                     ELSE [begun EXCEPT !.pc = "walk", !.todo = WalkOrder]
                [] r = "Git" -> [begun EXCEPT !.pc = "command",
                                              !.argv = <<<<"g", "i", "t">>>> \o GitArgs(source, dest)]
                [] r = "TAR" -> [begun EXCEPT !.pc = "request"]
                [] r = "ZIP" -> [begun EXCEPT !.pc = "request"]
        /\ UNCHANGED <<fetcher, homeOk, pc, op, args, res, fetchCalls, ret, inflight>>

\* the caller cancels the context while the Fetch runs
Cancel ==
    /\ fetching.pc \in {"walk", "request", "command"}
    /\ ~fetching.cancelled
    /\ fetching' = [fetching EXCEPT !.cancelled = TRUE]
    /\ UNCHANGED <<fetcher, homeOk, pc, op, args, res, fetchCalls, ret, inflight>>

\* copyDir: the callback of filepath.WalkDir on the next entry, which returns
\* the context error before it touches the entry; failure is the error of
\* creating or copying the entry
WalkStep(failure) ==
    LET f == fetching
        Wrapped(e) ==
            <<"c", "o", "p", "y", "i", "n", "g", " ">> \o srcPath(f.source) \o <<":", " ", "w", "a", "l", "k", " ">> \o srcPath(f.source) \o <<":", " ">> \o e
    IN  /\ f.pc = "walk"
        /\ fetching' =
              IF f.todo = <<>> THEN [f EXCEPT !.pc = "done"]
              ELSE IF f.cancelled
              THEN [f EXCEPT !.pc = "done", !.err = Wrapped(<<"c", "o", "n", "t", "e", "x", "t", ":", " ">> \o Canceled)]
              ELSE IF failure # NoError
              THEN [f EXCEPT !.pc = "done", !.err = Wrapped(failure)]
              ELSE [f EXCEPT !.todo = Tail(f.todo),
                             !.copied = IF Head(f.todo) = <<".">> THEN @ ELSE @ \cup {Head(f.todo)}]
        /\ UNCHANGED <<fetcher, homeOk, pc, op, args, res, fetchCalls, ret, inflight>>

\* TAR.Fetch and ZIP.Fetch: http.DefaultClient.Do of a request made with ctx;
\* failure is the error of the transfer or a status other than 200
RequestStep(failure) ==
    LET f == fetching
        Fetching(e) == <<"f", "e", "t", "c", "h", "i", "n", "g", " ">> \o URLString(f.source.URL[1]) \o <<":", " ">> \o e
    IN  /\ f.pc = "request"
        /\ fetching' =
              IF f.cancelled THEN [f EXCEPT !.pc = "done", !.err = Fetching(Canceled)]
              ELSE IF failure # NoError THEN [f EXCEPT !.pc = "done", !.err = Fetching(failure)]
              ELSE [f EXCEPT !.pc = "command",
                             !.argv = IF f.resolver = "TAR"
                                      THEN <<<<"t", "a", "r">>>> \o TARArgs(f.source, f.dest)
                                      ELSE <<<<"u", "n", "z", "i", "p">>>> \o ZIPArgs(f.source, f.dest)]
        /\ UNCHANGED <<fetcher, homeOk, pc, op, args, res, fetchCalls, ret, inflight>>

\* whether the subprocess of the resolver is started with exec.CommandContext:
\* tar and unzip are, git is started with exec.Command
CommandUnderContext(r) == r # "Git"

\* cmd.Run() of tar, unzip or git; failure is the error of the subprocess
CommandStep(failure) ==
    LET f == fetching
        Failed(e) == f.argv[1] \o <<" ", "f", "a", "i", "l", "e", "d", ":", " ">> \o e
    IN  /\ f.pc = "command"
        /\ fetching' =
              IF CommandUnderContext(f.resolver) /\ f.cancelled
              THEN [f EXCEPT !.pc = "done", !.err = Failed(Canceled)]
              ELSE IF failure # NoError
              THEN [f EXCEPT !.pc = "done", !.err = Failed(failure)]
              ELSE [f EXCEPT !.pc = "done", !.copied = ResolverFetch(f.resolver, f.source)]
        /\ UNCHANGED <<fetcher, homeOk, pc, op, args, res, fetchCalls, ret, inflight>>

\* the caller takes the error; the resolver is ready for the next Fetch
FetchDone ==
    /\ fetching.pc = "done"
    /\ fetching' = NoFetch
    /\ UNCHANGED <<fetcher, homeOk, pc, op, args, res, fetchCalls, ret, inflight>>

FetchInit ==
    /\ fetcher = Default
    /\ homeOk = TRUE
    /\ pc = "idle"
    /\ op = "none"
    /\ args = NoArgs
    /\ res = NoRes
    /\ fetchCalls = <<>>
    /\ ret = NoError
    /\ inflight = NoCalls
    /\ fetching = NoFetch

FetchNext ==
    \/ \E r \in Resolvers, s \in FetchSources, d \in Dests, c \in BOOLEAN,
          stat \in {NoError} \cup FetchFailures : StartFetch(r, s, d, c, stat)
    \/ Cancel
    \/ \E e \in {NoError} \cup FetchFailures : WalkStep(e)
    \/ \E e \in {NoError} \cup FetchFailures : RequestStep(e)
    \/ \E e \in {NoError} \cup FetchFailures : CommandStep(e)
    \/ FetchDone

FetchSpec == FetchInit /\ [][FetchNext]_vars

(***************************************************************************)
(* Properties.                                                             *)
(***************************************************************************)
\* a call has been made and has ended, by a return or by a panic
Ended == pc \in {"returned", "panicked"}

\* the least element of a non-empty set of integers
Least(S) == CHOOSE k \in S : \A m \in S : k <= m

\* the indices of the mappers of the Fetcher that report a match on the source string
MatchingMappers ==
    {i \in 1..Len(fetcher.mappers) : ApplyMapper(fetcher.mappers[i], args.source, homeOk).ok}

\* the URL the candidate string parses to
CandidateURL == ParseURL(res.candidate).url

\* the indices of the resolvers of the Fetcher whose Match is true of the candidate URL
MatchingResolvers ==
    LET Of(u) == {j \in 1..Len(fetcher.resolvers) : ResolverMatch(fetcher.resolvers[j], u)}
    IN  Of(CandidateURL)

\* the indices invoked, in order, by a list of calls
CalledIndices(calls) == [k \in 1..Len(calls) |-> calls[k].index]

\* the sequence 1, 2, ..., n
UpTo(n) == [k \in 1..n |-> k]

\* C1: the string parsed as the candidate URL is the output of the lowest-indexed
\* mapper that reports a match, the mappers invoked are exactly those up to that
\* one, each with the original string, and when no mapper reports a match every
\* mapper has been invoked and the candidate is the original input string.
C1_FirstMapperWins ==
    Ended =>
        /\ \A k \in 1..Len(res.mapperCalls) : res.mapperCalls[k].arg = args.source
        /\ LET FirstOf(matching) ==
                   IF matching = {}
                   THEN /\ res.candidate = args.source
                        /\ CalledIndices(res.mapperCalls) = UpTo(Len(fetcher.mappers))
                   ELSE LET first == Least(matching)
                        IN  /\ res.candidate =
                                  ApplyMapper(fetcher.mappers[first], args.source, homeOk).out
                            /\ CalledIndices(res.mapperCalls) = UpTo(first)
           IN  FirstOf(MatchingMappers)

\* C1 witness: two mappers of the list match the input with different outputs
C1_Witness ==
    /\ pc = "returned"
    /\ \E a, b \in MatchingMappers :
          /\ a < b
          /\ ApplyMapper(fetcher.mappers[a], args.source, homeOk).out
                # ApplyMapper(fetcher.mappers[b], args.source, homeOk).out

\* C2: once the candidate has parsed, the resolver returned is the lowest-indexed
\* resolver whose Match is true of the URL, the resolvers consulted are exactly
\* those up to that one, and no resolver is returned when none matches.
C2_FirstResolverWins ==
    (pc = "returned" /\ ~ParseURL(res.candidate).err) =>
        LET FirstOf(matching) ==
                IF matching = {}
                THEN /\ res.resolver = 0
                     /\ CalledIndices(res.matchCalls) = UpTo(Len(fetcher.resolvers))
                ELSE /\ res.outcome = "ok"
                     /\ res.resolver = Least(matching)
                     /\ CalledIndices(res.matchCalls) = UpTo(res.resolver)
        IN  FirstOf(MatchingResolvers)

\* C2 witness: a resolver was returned although a later one matches too
C2_Witness ==
    /\ pc = "returned"
    /\ res.outcome = "ok"
    /\ \E j \in MatchingResolvers : j > res.resolver

\* C3: on success the path is split at the first "//": the path of the Source
\* and the sub-directory, joined by "//", give the path of the URL back, no
\* "//" of the URL's path starts within the Source's path, and the other fields
\* of the URL are unchanged; without "//" the URL is unchanged and SubDir empty.
C3_SplitAtFirstDelimiter ==
    (pc = "returned" /\ res.outcome = "ok") =>
        /\ Len(res.source.URL) = 1
        /\ LET u == CandidateURL
               su == res.source.URL[1]
           IN  IF Contains(u.Path, <<"/", "/">>)
               THEN /\ su.Path \o <<"/", "/">> \o res.source.SubDir = u.Path
                    /\ ~Contains(su.Path, <<"/", "/">>)
                    /\ ~Contains(su.Path \o <<"/">>, <<"/", "/">>)
                    /\ su = [u EXCEPT !.Path = su.Path]
               ELSE /\ su = u
                    /\ res.source.SubDir = <<>>

\* C3 witness: a successful Resolve of a path holding "//" more than once
C3_Witness ==
    /\ pc = "returned"
    /\ res.outcome = "ok"
    /\ Contains(res.source.SubDir, <<"/", "/">>)

\* C4: every Match is called with the URL as parsed, its path undivided.
C4_MatchSeesUndividedPath ==
    Ended =>
        LET AllGiven(u) == \A k \in 1..Len(res.matchCalls) : res.matchCalls[k].arg = u
        IN  res.matchCalls # <<>> => AllGiven(CandidateURL)

\* C4 witness: a resolver matched a URL with a sub-directory after an earlier
\* resolver had been consulted
C4_Witness ==
    /\ pc = "returned"
    /\ res.outcome = "ok"
    /\ res.source.SubDir # <<>>
    /\ Len(res.matchCalls) >= 2
    /\ Contains(res.matchCalls[1].arg.Path, <<"/", "/">>)

\* the sub-directories appended in C5
SubDirs == {<<"s">>, <<"s", "/", "d">>}

\* the URL string s with "//" and sub appended to its path, that is before its
\* query and fragment
AppendSubDir(s, sub) ==
    LET ends == {k \in 1..Len(s) : s[k] \in {"?", "#"}}
        e == IF ends = {} THEN Len(s) + 1 ELSE Least(ends)
    IN  SubSeq(s, 1, e - 1) \o <<"/", "/">> \o sub \o SubSeq(s, e, Len(s))

\* C5: a URL that the Default fetcher resolves to a resolver, its path rooted,
\* not ending in "/" and without sub-directory, still resolves with
\* "//<subdir>" appended to its path, to the same resolver and the same
\* Source.URL, with SubDir = <subdir>.
C5_AllSourcesSupportSubDir ==
    (/\ pc = "returned"
     /\ fetcher = Default
     /\ res.outcome = "ok"
     /\ res.source.SubDir = <<>>
     /\ HasPrefix(CandidateURL.Path, <<"/">>)
     /\ ~HasSuffix(CandidateURL.Path, <<"/">>)) =>
        \A sub \in SubDirs :
            LET r2 == Resolve(Default, AppendSubDir(res.candidate, sub), homeOk)
            IN  /\ r2.outcome = "ok"
                /\ r2.resolver = res.resolver
                /\ r2.source.URL = res.source.URL
                /\ r2.source.SubDir = sub

\* C6: when the candidate parses and no resolver matches it, Resolve returns a
\* nil resolver, a zero Source and the error "unsupported source: " followed
\* by the rejected URL as URL.String prints it.
C6_UnsupportedSource ==
    (pc = "returned" /\ ~ParseURL(res.candidate).err /\ MatchingResolvers = {}) =>
        /\ res.outcome = "error"
        /\ res.resolver = 0
        /\ res.source = ZeroSource
        /\ HasPrefix(res.err, <<"u", "n", "s", "u", "p", "p", "o", "r", "t", "e", "d", " ", "s", "o", "u", "r", "c", "e">>)
        /\ res.err = <<"u", "n", "s", "u", "p", "p", "o", "r", "t", "e", "d", " ", "s", "o", "u", "r", "c", "e", ":", " ">> \o URLString(CandidateURL)

\* C6 witness: an unsupported ftp URL, every resolver having been consulted
C6_Witness ==
    /\ pc = "returned"
    /\ res.outcome = "error"
    /\ CandidateURL.Scheme = <<"f", "t", "p">>
    /\ Len(res.matchCalls) = Len(fetcher.resolvers)
    /\ Len(fetcher.resolvers) >= 2
    /\ Contains(res.err, res.candidate)

\* C7: after a successful resolution Fetch has called the Fetch of the resolver
\* returned by Resolve exactly once, with the caller's context, the Source
\* returned by Resolve and the caller's destination, and returns what that
\* call returned.
C7_FetchDelegates ==
    (pc = "returned" /\ op = "Fetch" /\ res.outcome = "ok") =>
        /\ Len(fetchCalls) = 1
        /\ fetchCalls[1].resolver = res.resolver
        /\ fetchCalls[1].ctx = args.ctx
        /\ fetchCalls[1].source = res.source
        /\ fetchCalls[1].dest = args.dest
        /\ ret = fetchCalls[1].returned

\* C7 witness: a Fetch whose resolver failed
C7_Witness ==
    /\ pc = "returned"
    /\ op = "Fetch"
    /\ res.outcome = "ok"
    /\ Len(fetchCalls) = 1
    /\ ret # NoError

\* C8: when the first mapper to match returns a string that does not parse,
\* Resolve panics: it returns no error value, invokes no later mapper,
\* consults no resolver, and Fetch calls no resolver's Fetch.
C8_InvalidMapperOutputPanics ==
    (Ended /\ MatchingMappers # {}) =>
        LET first == Least(MatchingMappers)
            out == ApplyMapper(fetcher.mappers[first], args.source, homeOk).out
        IN  ParseURL(out).err =>
                /\ pc = "panicked"
                /\ res.outcome = "panic"
                /\ res.err = NoError
                /\ ret = NoError
                /\ CalledIndices(res.mapperCalls) = UpTo(first)
                /\ res.matchCalls = <<>>
                /\ fetchCalls = <<>>

\* C8 witness: a panic with a later mapper left in the list
C8_Witness ==
    /\ pc = "panicked"
    /\ Len(res.mapperCalls) < Len(fetcher.mappers)

\* what C9 promises of a call whose source string is invalid
InvalidSourceReported ==
    /\ pc = "returned"
    /\ res.outcome = "error"
    /\ HasPrefix(res.err, <<"i", "n", "v", "a", "l", "i", "d", " ", "s", "o", "u", "r", "c", "e">>)
    /\ ~HasPrefix(res.err, <<"u", "n", "s", "u", "p", "p", "o", "r", "t", "e", "d", " ", "s", "o", "u", "r", "c", "e">>)
    /\ HasSuffix(res.err, Quote(res.candidate))
    /\ res.resolver = 0
    /\ res.source = ZeroSource
    /\ res.matchCalls = <<>>
    /\ op = "Fetch" => (ret = res.err /\ fetchCalls = <<>>)

\* C9 as stated: whenever the source string, after mapping, fails to parse,
\* the "invalid source" error is returned.
C9_Original == (Ended /\ ParseURL(res.candidate).err) => InvalidSourceReported

\* C9 amended: when no mapper reports a match and the source string fails to
\* parse, the "invalid source" error is returned with a nil resolver and a
\* zero Source, and no Match is consulted.
C9_InvalidSourceUnmapped ==
    (Ended /\ MatchingMappers = {} /\ ParseURL(args.source).err) => InvalidSourceReported

\* C9 witness: an unmapped string that does not parse, given to Fetch
C9_Witness ==
    /\ pc = "returned"
    /\ op = "Fetch"
    /\ fetcher.mappers # <<>>
    /\ MatchingMappers = {}
    /\ ParseURL(args.source).err

\* C10: with the Default fetcher the empty string matches no mapper and no
\* resolver, so that Resolve returns an error, does not panic, and Fetch calls
\* no resolver's Fetch.
C10_EmptyStringIsAnError ==
    (Ended /\ fetcher = Default /\ args.source = <<>>) =>
        /\ MatchingMappers = {}
        /\ MatchingResolvers = {}
        /\ pc = "returned"
        /\ res.outcome = "error"
        /\ res.err # NoError
        /\ fetchCalls = <<>>

(***************************************************************************)
(* Properties of the built-in mappers and resolvers.                       *)
(***************************************************************************)
\* the invocations of the mapper m recorded in this call
CallsOf(m) ==
    {res.mapperCalls[k] : k \in {n \in 1..Len(res.mapperCalls) :
                                    fetcher.mappers[res.mapperCalls[n].index] = m}}

BeforeSuffix(s) ==
    LET UpTo1(ends) == IF ends = {} THEN s ELSE SubSeq(s, 1, Least(ends) - 1)
    IN  UpTo1({k \in 1..Len(s) : s[k] \in {"?", "#"}})

\* s is a non-empty run of the characters [A-Za-z0-9_-]
IsName(s) == s # <<>> /\ \A k \in 1..Len(s) : IsNameChar(s[k])

\* s is n segments, each a name, optionally followed by a query or a fragment
IsShorthand(s, n) ==
    LET Names(segs) == Len(segs) = n /\ \A k \in 1..n : IsName(segs[k])
    IN  Names(SplitPath(BeforeSuffix(s)))

\* C13: GitHubOrgRepo reports a match if and only if its input is exactly two
\* segments <org>/<repo>, each matching [A-Za-z0-9_-]+, optionally followed
\* by a query or a fragment; a bare "u/r" matches, and the empty string, a
\* single word, three segments and github.com/... do not.
C13_OrgRepoMatchesTwoSegments ==
    Ended => \A c \in CallsOf(MapGitHubOrgRepo) : c.ok <=> IsShorthand(c.arg, 2)

C15_SingleOrgMatchesOneSegment ==
    Ended => \A o \in Orgs : \A c \in CallsOf(MapSingleGitHubOrg(o)) :
                /\ c.ok <=> IsShorthand(c.arg, 1)
                /\ c.ok => c.out = <<"h", "t", "t", "p", "s", ":", "/", "/", "g", "i", "t", "h", "u", "b", ".", "c", "o", "m", "/">> \o o \o <<"/">> \o c.arg

\* the positions of x in the list l
PositionsOf(l, x) == {i \in 1..Len(l) : l[i] = x}

\* C16: resolving "user/repo?ref=main" with a Fetcher whose mappers include
\* GitHubOrgRepo and whose resolvers include Git succeeds: GitHubOrgRepo is the
\* mapper that matches, the candidate is the github.com URL of user/repo, the
\* resolver selected (and the one Fetch calls) is Git, and the Source has host
\* github.com, path /user/repo, query ref=main and an empty SubDir.
C16_ShorthandEndToEnd ==
    (/\ Ended
     /\ args.source = <<"u", "s", "e", "r", "/", "r", "e", "p", "o", "?", "r", "e", "f", "=", "m", "a", "i", "n">>
     /\ PositionsOf(fetcher.mappers, MapGitHubOrgRepo) # {}
     /\ PositionsOf(fetcher.resolvers, "Git") # {})
    => /\ res.outcome = "ok"
       /\ res.err = NoError
       /\ res.resolver \in PositionsOf(fetcher.resolvers, "Git")
       /\ res.candidate = <<"g", "i", "t", "+", "h", "t", "t", "p", "s", ":", "/", "/", "g", "i", "t", "h", "u", "b", ".", "c", "o", "m", "/", "u", "s", "e", "r", "/", "r", "e", "p", "o", "?", "r", "e", "f", "=", "m", "a", "i", "n">>
       /\ \A k \in 1..Len(res.mapperCalls) :
              res.mapperCalls[k].ok
                 <=> res.mapperCalls[k].index \in PositionsOf(fetcher.mappers, MapGitHubOrgRepo)
       /\ res.source.URL[1].Host = <<"g", "i", "t", "h", "u", "b", ".", "c", "o", "m">>
       /\ res.source.URL[1].Path = <<"/", "u", "s", "e", "r", "/", "r", "e", "p", "o">>
       /\ res.source.URL[1].RawQuery = <<"r", "e", "f", "=", "m", "a", "i", "n">>
       /\ res.source.SubDir = <<>>
       /\ op = "Fetch" =>
              /\ Len(fetchCalls) = 1
              /\ fetcher.resolvers[fetchCalls[1].resolver] = "Git"
              /\ fetchCalls[1].source = res.source

\* C16 witness: Fetch of "user/repo?ref=main" returned, on a Fetcher other than
\* Default that holds GitHubOrgRepo and Git
C16_Witness ==
    /\ pc = "returned"
    /\ op = "Fetch"
    /\ args.source = <<"u", "s", "e", "r", "/", "r", "e", "p", "o", "?", "r", "e", "f", "=", "m", "a", "i", "n">>
    /\ fetcher # Default
    /\ PositionsOf(fetcher.mappers, MapGitHubOrgRepo) # {}
    /\ PositionsOf(fetcher.resolvers, "Git") # {}
    /\ res.outcome = "ok"

\* C17: Git.Match returns true exactly when the scheme of the URL is
\* git+https, git+ssh or git: every Match call made on a Git resolver selects
\* it exactly when the URL has one of these schemes.
C17_GitMatchesGitSchemes ==
    Ended => \A k \in 1..Len(res.matchCalls) :
                LET c == res.matchCalls[k]
                IN  fetcher.resolvers[c.index] = "Git" =>
                       (res.resolver = c.index
                          <=> c.arg.Scheme \in {<<"g", "i", "t", "+", "h", "t", "t", "p", "s">>, <<"g", "i", "t", "+", "s", "s", "h">>, <<"g", "i", "t">>})

\* call c of a goroutine ended as Resolve, run alone, ends with result r
AsAlone(c, r) ==
    /\ c.pc = "panicked" <=> r.outcome = "panic"
    /\ c.pc = "returned" =>
          /\ c.resolver = r.resolver
          /\ c.src = r.source
          /\ r.outcome = "error" => c.err = r.err /\ c.fetched = <<>>
          /\ r.outcome = "ok" /\ c.op = "Resolve" => c.err = NoError /\ c.fetched = <<>>
          /\ r.outcome = "ok" /\ c.op = "Fetch" =>
                /\ Len(c.fetched) = 1
                /\ c.fetched[1].resolver = r.resolver
                /\ c.fetched[1].ctx = c.ctx
                /\ c.fetched[1].source = r.source
                /\ c.fetched[1].dest = c.dest
                /\ c.err = c.fetched[1].returned

\* C18: in every interleaving of the Resolve and Fetch calls of the goroutines
\* no step changes the mapper list or the resolver list of the Fetcher, and
\* every call that ended has the result that Resolve or Fetch gives when run
\* alone on a Fetcher newly constructed from the same lists.
C18_CallsIndependent ==
    /\ [][fetcher' = fetcher]_vars
    /\ [](\A p \in Procs :
            inflight[p].pc \in {"returned", "panicked"} =>
                AsAlone(inflight[p],
                        Resolve(New(fetcher.resolvers, fetcher.mappers),
                                inflight[p].arg, homeOk)))

\* C18 witness: a Fetch has returned successfully in one goroutine while a call
\* on another source string is inside its resolver loop in the other
C18_Witness ==
    /\ inflight["g1"].pc = "returned"
    /\ inflight["g1"].op = "Fetch"
    /\ inflight["g1"].fetched # <<>>
    /\ inflight["g2"].pc = "resolvers"
    /\ inflight["g2"].i = 2
    /\ inflight["g2"].arg # inflight["g1"].arg

\* the entries of a set that lie under the directory sub, relative to it
Under(entries, sub) ==
    {SubSeq(e, Len(sub) + 2, Len(e)) : e \in {x \in entries : HasPrefix(x, sub \o <<"/">>)}}

\* C19: after a successful Fetch of a source whose URL path carries
\* "//<subdir>", the destination holds the entries of <subdir> of the archive
\* and not the whole archive.
C19_SubDirExtracted ==
    \A k \in 1..Len(fetchCalls) :
        LET c == fetchCalls[k]
        IN  (c.returned = NoError /\ c.source.SubDir # <<>>) =>
               c.written = Under(Contents, c.source.SubDir)

\* the inputs that name an existing directory of the file system, each with
\* the absolute, symlink-resolved path of that directory: absolute paths,
\* names relative to the working directory /w, "." and "..", and, when the
\* home directory /h is known, ~/-relative names
DirectoryNamed(home) ==
    {<<<<"/", "w", "/", "d">>, <<"/", "w", "/", "d">>>>, <<<<"/", "w", "/", "l">>, <<"/", "w", "/", "d">>>>, <<<<"d">>, <<"/", "w", "/", "d">>>>, <<<<"l">>, <<"/", "w", "/", "d">>>>,
     <<<<"r", "?", "x">>, <<"/", "w", "/", "r", "?", "x">>>>, <<<<".">>, <<"/", "w">>>>, <<<<".", ".">>, <<"/">>>>}
      \cup (IF home THEN {<<<<"~", "/">>, <<"/", "h">>>>, <<<<"~", "/", "p">>, <<"/", "h", "/", "p">>>>} ELSE {})

\* C20: FilePath reports a match exactly when the input starts with "file://",
\* which it returns unchanged, or names an existing directory, for which it
\* returns "file://" followed by the absolute, symlink-resolved path; on the
\* empty string, a path that does not exist, a path that is not a directory
\* and a failed home-directory lookup it returns "", false and Resolve goes on
\* without a panic.
C20_FilePathMatchesDirectories ==
    Ended => \A c \in CallsOf(MapFilePath) :
                LET named == {d \in DirectoryNamed(homeOk) : d[1] = c.arg}
                IN  /\ c.ok <=> (HasPrefix(c.arg, <<"f", "i", "l", "e", ":", "/", "/">>) \/ named # {})
                    /\ HasPrefix(c.arg, <<"f", "i", "l", "e", ":", "/", "/">>) => c.out = c.arg
                    /\ \A d \in named :
                          /\ c.out = <<"f", "i", "l", "e", ":", "/", "/">> \o d[2]
                          /\ d[2] \in FsDirs /\ d[2] \notin DOMAIN FsLinks
                    /\ ~c.ok => c.out = <<>> /\ (res.outcome = "panic" => \E m \in 1..Len(res.mapperCalls) : res.mapperCalls[m].ok)

\* C20 witness: FilePath matched a bare name that is a symbolic link to a directory
C20_Witness ==
    /\ pc = "returned"
    /\ \E c \in CallsOf(MapFilePath) : c.ok /\ c.arg = <<"l">> /\ c.out = <<"f", "i", "l", "e", ":", "/", "/", "/", "w", "/", "d">>

\* C24: when Resolve fails with an invalid source or an unsupported source,
\* Fetch returns exactly the error of Resolve, which is not nil, and calls the
\* Fetch of no resolver, so that no entry is written to the destination.
C24_FailedResolveFetchesNothing ==
    (Ended /\ op = "Fetch" /\ res.outcome = "error")
    => /\ res.resolver = 0
       /\ res.err # NoError
       /\ ret = res.err
       /\ \/ ret = InvalidSourceError(res.candidate)
          \/ ret = UnsupportedSourceError(CandidateURL)
       /\ fetchCalls = <<>>
       /\ \A k \in 1..Len(fetchCalls) : fetchCalls[k].written = {}

\* C24 witness: Fetch returned the unsupported-source error of a Resolve that
\* consulted a resolver
C24_Witness ==
    /\ pc = "returned"
    /\ op = "Fetch"
    /\ res.outcome = "error"
    /\ res.matchCalls # <<>>
    /\ ret = UnsupportedSourceError(CandidateURL)

\* the tarball extensions of the README
TarExtensions ==
    {<<".", "t", "a", "r">>, <<".", "t", "a", "r", ".", "g", "z">>, <<".", "t", "a", "r", ".", "b", "z", "2">>, <<".", "t", "a", "r", ".", "x", "z">>, <<".", "t", "a", "r", ".", "z", "s", "t">>, <<".", "t", "a", "r", ".", "l", "z">>, <<".", "t", "a", "r", ".", "Z">>,
     <<".", "t", "g", "z">>, <<".", "t", "b", "z">>, <<".", "t", "b", "z", "2">>, <<".", "t", "x", "z">>, <<".", "t", "z", "s", "t", "d">>, <<".", "t", "l", "z">>, <<".", "t", "Z">>}

\* the source string of the call is a URL of one of the schemes whose path
\* ends in one of the extensions
SourceIs(schemes, extensions) ==
    LET Is(p) ==
            /\ ~p.err
            /\ p.url.Scheme \in schemes
            /\ \E e \in extensions : HasSuffix(p.url.Path, e)
    IN  Is(ParseURL(args.source))

\* C22: with the Default fetcher every http:// or https:// URL whose path ends
\* in a tarball extension resolves to the TAR resolver: File and Git, which
\* come before TAR, do not match it.
C22_TarballsResolveToTAR ==
    (Ended /\ fetcher = Default /\ SourceIs({<<"h", "t", "t", "p">>, <<"h", "t", "t", "p", "s">>}, TarExtensions))
    => /\ res.outcome = "ok"
       /\ fetcher.resolvers[res.resolver] = "TAR"

\* C23: with the Default fetcher every https:// URL whose path ends in ".zip"
\* resolves to the ZIP resolver: TAR, which comes before ZIP, does not match it.
C23_ZipsResolveToZIP ==
    (Ended /\ fetcher = Default /\ SourceIs({<<"h", "t", "t", "p", "s">>}, {<<".", "z", "i", "p">>}))
    => /\ res.outcome = "ok"
       /\ fetcher.resolvers[res.resolver] = "ZIP"
       /\ \A k \in 1..Len(res.matchCalls) :
              fetcher.resolvers[res.matchCalls[k].index] = "TAR"
                 => ~TARMatch(res.matchCalls[k].arg)

\* C21: a Fetch of a built-in resolver called with a context that is already
\* cancelled returns an error and leaves no entry of the source in the
\* destination; File.Fetch creates no further entry in the destination once
\* the context is cancelled.
C21_CancelledFetchFails ==
    /\ [](fetching.pc = "done" /\ fetching.atCall =>
             fetching.err # NoError /\ fetching.copied = {})
    /\ [][fetching.resolver = "File" /\ fetching.cancelled =>
             fetching'.copied \subseteq fetching.copied]_vars

\* the repository URL of a source URL: the query removed, git+https://host/path
\* as https://host/path, git+ssh://host/path as git@host:path, git://host/path
\* unchanged
RepositoryURL(u) ==
    CASE u.Scheme = <<"g", "i", "t", "+", "h", "t", "t", "p", "s">> -> <<"h", "t", "t", "p", "s", ":", "/", "/">> \o u.Host \o u.Path
      [] u.Scheme = <<"g", "i", "t", "+", "s", "s", "h">> ->
            <<"g", "i", "t", "@">> \o u.Host \o <<":">>
               \o (IF HasPrefix(u.Path, <<"/">>) THEN Tail(u.Path) ELSE u.Path)
      [] u.Scheme = <<"g", "i", "t">> -> <<"g", "i", "t", ":", "/", "/">> \o u.Host \o u.Path
      [] OTHER -> URLString([u EXCEPT !.RawQuery = <<>>, !.ForceQuery = FALSE])

\* the option opt is passed with the value v somewhere in the command line a
Passes(a, opt, v) == \E k \in 1..(Len(a) - 1) : a[k] = opt /\ a[k + 1] = v

\* the command line a passes --depth exactly when the depth parameter of the
\* URL u is not empty, and --branch exactly when its ref parameter is not
CloneOptions(a, u) ==
    LET Has(opt) == \E k \in 1..Len(a) : a[k] = opt
        Exactly(opt, v) == IF v = <<>> THEN ~Has(opt) ELSE Passes(a, opt, v)
    IN  /\ Exactly(<<"-", "-", "d", "e", "p", "t", "h">>, QueryGet(u.RawQuery, <<"d", "e", "p", "t", "h">>))
        /\ Exactly(<<"-", "-", "b", "r", "a", "n", "c", "h">>, QueryGet(u.RawQuery, <<"r", "e", "f">>))

\* C25: Git.Fetch runs git clone with the repository URL and the destination
\* as its last two arguments, --depth <d> exactly when the depth parameter is
\* not empty and --branch <r> exactly when the ref parameter is not empty.
C25_GitCloneArguments ==
    (fetching.resolver = "Git" /\ fetching.argv # <<>>)
    => LET a == fetching.argv
           u == fetching.source.URL[1]
       IN  /\ Len(a) >= 4
           /\ a[1] = <<"g", "i", "t">>
           /\ a[2] = <<"c", "l", "o", "n", "e">>
           /\ a[Len(a) - 1] = RepositoryURL(u)
           /\ a[Len(a)] = fetching.dest
           /\ CloneOptions(a, u)

=============================================================================
